---- MODULE Spec2Model ----
(***************************************************************************)
(* A model of tg-code-highlighter: the Telegram update loop of main.rs     *)
(* (inline queries, chosen results, the gist table and its expiry) and     *)
(* the canvas sizing and compositing of render.rs.                         *)
(*                                                                         *)
(* Spec        the update loop: main, process_update, process_inline_query *)
(* SpecRender  one call of render::draw_code                               *)
(***************************************************************************)
EXTENDS Integers, Sequences, FiniteSets, TLC

VARIABLES
    \* ---- main.rs ----
    pc,          \* where the single task of main is: "poll" is the await of stream.next(),
                 \* "returned" is process_update having returned to the loop body
    clock,       \* SystemTime::now() in seconds since the epoch
    gist,        \* the gist table: id -> [sent_at_unix_time, is_ephemeral]
    offered,     \* result ids delivered to a user by a successful answer
    cur,         \* the update being processed
    result,      \* what process_update returned for cur: "pending", "ok", "err"
    nInserts,    \* INSERT statements executed for cur
    rendered,    \* draw_code was called for cur
    uploaded,    \* SendPhoto was sent for cur
    answer,      \* the answer sent for cur
    drawResult,  \* how draw_code ended for cur
    inflight,    \* process_update calls begun and not yet returned
    rendering,   \* draw_code calls that hold the font system and the glyph cache
    \* ---- render.rs ----
    rpc,         \* where draw_code is
    source,      \* the code argument
    font,        \* what the shaping library measures: [advance, baseline], in 1/Sub pixels
    runs,        \* buffer.layout_runs(): a sequence of [line_w, line_y], in 1/Sub pixels
    buf_width,
    buf_height,
    palette_buffer,  \* touched index -> the colors composited over the background, in order
    event,       \* the last coverage event, margin-shifted: [x, y, w, h]
    accessed,    \* the indices the last event indexed palette_buffer with, in order
    nEvents

botVars == <<pc, clock, gist, offered, cur, result, nInserts, rendered, uploaded,
             answer, drawResult, inflight, rendering>>
renderVars == <<rpc, source, font, runs, buf_width, buf_height, palette_buffer,
                event, accessed, nEvents>>
vars == <<botVars, renderVars>>

----------------------------------------------------------------------------
\* Bounds of the model.

\* The longest inline query text, in characters.
MaxQueryLen == 2
\* How far past the retention window the clock runs.
MaxSlack == 1
\* The longest source handed to draw_code, in characters.
MaxSrcLen == 3
\* The coverage events of one draw_code call.
MaxEvents == 1
\* The parts of a pixel that a length is measured in.
Sub == 2

\* Program constants.
MaxAttempts == 100
Retention == 1800

UNUSED_RESULT_ID == "unused-result-id"

\* The ids thread_rng can draw (8 alphanumeric characters each, so never
\* UNUSED_RESULT_ID).
Ids == {"g1", "g2"}

\* The characters of a query: a letter, a space, a whitespace character that
\* is not a space, and the colon.
Chars == {"a", " ", "\n", ":"}
\* char::is_whitespace, on Chars.
Whitespace == {" ", "\n"}

Texts(n) == UNION {[1..k -> Chars] : k \in 0..n}

----------------------------------------------------------------------------
\* Option<T>
None == [some |-> FALSE, val |-> <<>>]
Some(v) == [some |-> TRUE, val |-> v]

\* str::find for a one-character pattern: Some(index of the first match), 1-based.
RECURSIVE FindFrom(_, _, _)
FindFrom(s, c, i) ==
    IF i > Len(s) THEN 0
    ELSE IF s[i] = c THEN i
    ELSE FindFrom(s, c, i + 1)

Find(s, c) == FindFrom(s, c, 1)

\* str::split for a one-character pattern: the pieces between the matches.
RECURSIVE Split(_, _)
Split(s, c) ==
    LET i == Find(s, c)
    IN IF i = 0 THEN <<s>>
       ELSE <<SubSeq(s, 1, i - 1)>> \o Split(SubSeq(s, i + 1, Len(s)), c)

\* [&str]::join
RECURSIVE Join(_, _)
Join(pieces, c) ==
    IF pieces = <<>> THEN <<>>
    ELSE IF Len(pieces) = 1 THEN pieces[1]
    ELSE pieces[1] \o <<c>> \o Join(Tail(pieces), c)

\* str::trim: without its leading and trailing whitespace.
RECURSIVE TrimStart(_)
TrimStart(s) ==
    IF s # <<>> /\ s[1] \in Whitespace THEN TrimStart(Tail(s)) ELSE s

RECURSIVE TrimEnd(_)
TrimEnd(s) ==
    IF s # <<>> /\ s[Len(s)] \in Whitespace THEN TrimEnd(SubSeq(s, 1, Len(s) - 1)) ELSE s

Trim(s) == TrimEnd(TrimStart(s))

\* The test of the word in front of the first colon: first.find(" ").is_none()
SingleWord(first) == Find(first, " ") = 0

\* process_inline_query, its first lines: the query split into code_ext and code.
ParseQuery(text) ==
    IF Find(text, ":") # 0 /\ SingleWord(Split(text, ":")[1])
    THEN [code_ext |-> Some(Split(text, ":")[1]),
          code |-> Join(Tail(Split(text, ":")), ":")]
    ELSE [code_ext |-> None, code |-> text]

\* The test without the trim: code.is_empty()
NoCodeUntrimmed(code) == code = <<>>
\* code.trim().is_empty()
NoCode(code) == Trim(code) = <<>>

----------------------------------------------------------------------------
\* The insertion loop of process_inline_query. The database is the input: the
\* first `failing` INSERT statements fail (an id that is taken, or any other
\* error) and the next one would succeed. Returns whether the loop broke out
\* with a row inserted, and the INSERT statements executed.
RECURSIVE InsertLoop(_, _, _)
InsertLoop(attempts, inserts, failing) ==
    IF inserts < failing
    THEN \* result.is_err(): attempts += 1; if attempts > 100 { return Err }
         IF attempts + 1 > MaxAttempts
         THEN [ok |-> FALSE, inserts |-> inserts + 1]
         ELSE InsertLoop(attempts + 1, inserts + 1, failing)
    ELSE [ok |-> TRUE, inserts |-> inserts + 1]

\* How many INSERT statements the database fails in a row.
FailCounts == {0, MaxAttempts - 1, MaxAttempts, MaxAttempts + 1}

\* How the insertion loop can end.
InsertOutcomes == {InsertLoop(0, 0, failing) : failing \in FailCounts}

\* The WHERE clause with <= for <.
ExpiredAtCutoff(row, delete_cutoff) ==
    row.is_ephemeral > 0 /\ row.sent_at_unix_time <= delete_cutoff
\* DELETE FROM gist WHERE is_ephemeral>0 AND sent_at_unix_time<?
Expired(row, delete_cutoff) ==
    row.is_ephemeral > 0 /\ row.sent_at_unix_time < delete_cutoff

\* UPDATE gist SET is_ephemeral=0 WHERE id=?
SetNotEphemeral(table, id) ==
    [i \in DOMAIN table |->
        IF i = id THEN [table[i] EXCEPT !.is_ephemeral = 0] ELSE table[i]]

\* The DELETE of the expiry step, with delete_cutoff = now - 1800.
DeleteExpired(table, now) ==
    LET keep == {i \in DOMAIN table : ~Expired(table[i], now - Retention)}
    IN [i \in keep |-> table[i]]

\* INSERT INTO gist (...) VALUES (?, ?, ?, ?, 1, ?), of an id that no row has
\* (the loop makes ids until an insertion succeeds: a taken id fails).
InsertGist(table, id, now) ==
    [i \in DOMAIN table \cup {id} |->
        IF i = id THEN [sent_at_unix_time |-> now, is_ephemeral |-> 1] ELSE table[i]]

NoUpdate == [kind |-> "none", query |-> <<>>, code_ext |-> None, code |-> <<>>,
             id |-> "", result_id |-> ""]
NoAnswer == [kind |-> "none", id |-> ""]

\* A loop that spawned process_update would take the next update at any time.
CanPollSpawned == pc \notin {"panicked", "exited"}
\* The while-let of main takes the next update only when it is back at
\* stream.next(): process_update is awaited in the loop body, never spawned.
CanPoll == pc = "poll"

\* process_update is called with a new update.
Begin(update) ==
    /\ cur' = update
    /\ inflight' = inflight + 1

\* process_update returns to the loop body of main.
Return(r) ==
    /\ result' = r
    /\ pc' = "returned"
    /\ inflight' = inflight - 1

InitBot ==
    /\ pc = "poll"
    /\ clock = 0
    /\ gist = <<>>
    /\ offered = {}
    /\ cur = NoUpdate
    /\ result = "none"
    /\ nInserts = 0
    /\ rendered = FALSE
    /\ uploaded = FALSE
    /\ answer = NoAnswer
    /\ drawResult = "none"
    /\ inflight = 0
    /\ rendering = 0

\* Time passes, by a second or by the retention window. Each handler reads the
\* clock at most once, so time that passes inside a handler is time that
\* passed before or after it.
Tick ==
    /\ pc = "poll"
    /\ \E d \in {1, Retention} :
          /\ clock + d <= Retention + MaxSlack
          /\ (clock + d) % Retention <= MaxSlack
          /\ clock' = clock + d
    /\ UNCHANGED <<renderVars, pc, gist, offered, cur, result, nInserts, rendered, uploaded,
                   answer, drawResult, inflight, rendering>>

\* UpdateKind::Message with a text: the reply is sent, and the send may fail.
RecvMessage ==
    /\ CanPoll
    /\ cur' = [NoUpdate EXCEPT !.kind = "message"]
    /\ \E sent \in BOOLEAN :
          /\ result' = IF sent THEN "ok" ELSE "err"
          /\ pc' = "returned"
    /\ UNCHANGED <<renderVars, clock, gist, offered, nInserts, rendered, uploaded, answer,
                   drawResult, inflight, rendering>>

\* Any other update: the `_ => {}` arm.
RecvOther ==
    /\ CanPoll
    /\ cur' = [NoUpdate EXCEPT !.kind = "other"]
    /\ result' = "ok"
    /\ pc' = "returned"
    /\ UNCHANGED <<renderVars, clock, gist, offered, nInserts, rendered, uploaded, answer,
                   drawResult, inflight, rendering>>

\* stream.next() yields None or an error: main returns.
StreamEnds ==
    /\ CanPoll
    /\ pc' = "exited"
    /\ UNCHANGED <<renderVars, clock, gist, offered, cur, result, nInserts, rendered, uploaded,
                   answer, drawResult, inflight, rendering>>

\* The loop body of main is done with the update (an error is logged) and the
\* loop goes back to stream.next(); the update and all that process_update
\* held for it are dropped.
NextIteration ==
    /\ pc = "returned"
    /\ pc' = "poll"
    /\ cur' = NoUpdate
    /\ result' = "none"
    /\ nInserts' = 0
    /\ rendered' = FALSE
    /\ uploaded' = FALSE
    /\ answer' = NoAnswer
    /\ drawResult' = "none"
    /\ UNCHANGED <<renderVars, clock, gist, offered, inflight, rendering>>

\* UpdateKind::InlineQuery with no code typed yet: the invitation article is
\* the answer, and process_inline_query returns.
RecvEmptyQuery ==
    /\ CanPoll
    /\ \E text \in Texts(MaxQueryLen) :
         LET p == ParseQuery(text)
         IN /\ NoCode(p.code)
            /\ cur' = [NoUpdate EXCEPT !.kind = "query", !.query = text,
                                       !.code_ext = p.code_ext, !.code = p.code]
            /\ answer' = [kind |-> "article", id |-> UNUSED_RESULT_ID]
            /\ \E sent \in BOOLEAN :
                  /\ result' = IF sent THEN "ok" ELSE "err"
                  /\ offered' = IF sent THEN offered \cup {UNUSED_RESULT_ID} ELSE offered
                  /\ pc' = "returned"
    /\ UNCHANGED <<renderVars, clock, gist, nInserts, rendered, uploaded, drawResult,
                   inflight, rendering>>

\* UpdateKind::InlineQuery with code, up to the call of draw_code: the query
\* is split and the code is inserted as an ephemeral gist under a new id, or
\* the insertion loop gives up.
RecvInlineQuery ==
    /\ CanPoll
    /\ \E r \in InsertOutcomes, text \in Texts(MaxQueryLen), id \in Ids :
              LET p == ParseQuery(text)
                  update == [NoUpdate EXCEPT !.kind = "query", !.query = text,
                                             !.code_ext = p.code_ext, !.code = p.code]
              IN /\ ~NoCode(p.code)
                 /\ r.ok => id \notin DOMAIN gist
                 /\ nInserts' = r.inserts
                 /\ IF r.ok
                    THEN /\ Begin([update EXCEPT !.id = id])
                         /\ gist' = InsertGist(gist, id, clock)
                         /\ result' = "pending"
                         /\ pc' = "render"
                    ELSE /\ cur' = update
                         /\ result' = "err"
                         /\ pc' = "returned"
                         /\ UNCHANGED <<gist, inflight>>
    /\ UNCHANGED <<renderVars, clock, offered, rendered, uploaded, answer, drawResult, rendering>>

\* render::draw_code is entered: it borrows the font system and the glyph cache.
DrawBegin ==
    /\ pc = "render"
    /\ pc' = "drawing"
    /\ rendered' = TRUE
    /\ rendering' = rendering + 1
    /\ UNCHANGED <<renderVars, clock, gist, offered, cur, result, nInserts, uploaded, answer,
                   drawResult, inflight>>

\* draw_code ends: it returns the PNG, or one of its expect()s or the index
\* into palette_buffer panics, and the panic unwinds through main.
DrawEnd ==
    /\ pc = "drawing"
    /\ \E outcome \in {"png", "highlight_failed", "index_out_of_bounds", "encode_failed"} :
          /\ drawResult' = outcome
          /\ pc' = IF outcome = "png" THEN "upload" ELSE "panicked"
    /\ rendering' = rendering - 1
    /\ UNCHANGED <<renderVars, clock, gist, offered, cur, result, nInserts, rendered, uploaded,
                   answer, inflight>>

\* SendPhoto to the null chat: the send fails, or the message that comes back
\* is a photo or is not.
Upload ==
    /\ pc = "upload"
    /\ uploaded' = TRUE
    /\ \E reply \in {"photo", "not_photo", "send_failed"} :
          IF reply = "photo"
          THEN /\ pc' = "answer"
               /\ UNCHANGED <<result, inflight>>
          ELSE Return("err")
    /\ UNCHANGED <<renderVars, clock, gist, offered, cur, nInserts, rendered, answer, drawResult,
                   rendering>>

\* The answer with the cached photo, whose result id is the gist's id.
Answer ==
    /\ pc = "answer"
    /\ answer' = [kind |-> "photo", id |-> cur.id]
    /\ \E sent \in BOOLEAN :
          /\ Return(IF sent THEN "ok" ELSE "err")
          /\ offered' = IF sent THEN offered \cup {cur.id} ELSE offered
    /\ UNCHANGED <<renderVars, clock, gist, cur, nInserts, rendered, uploaded, drawResult, rendering>>

\* UpdateKind::ChosenInlineResult for the invitation article: nothing to do.
RecvChosenUnused ==
    /\ CanPoll
    /\ UNUSED_RESULT_ID \in offered
    /\ cur' = [NoUpdate EXCEPT !.kind = "chosen", !.result_id = UNUSED_RESULT_ID]
    /\ result' = "ok"
    /\ pc' = "returned"
    /\ UNCHANGED <<renderVars, clock, gist, offered, nInserts, rendered, uploaded, answer,
                   drawResult, inflight, rendering>>

\* UpdateKind::ChosenInlineResult: a user chose a result that was offered.
\* The UPDATE may fail.
RecvChosen ==
    /\ CanPoll
    /\ \E rid \in offered \ {UNUSED_RESULT_ID}, updated \in BOOLEAN :
          IF updated
          THEN /\ Begin([NoUpdate EXCEPT !.kind = "chosen", !.result_id = rid])
               /\ gist' = SetNotEphemeral(gist, rid)
               /\ result' = "pending"
               /\ pc' = "expire"
          ELSE /\ cur' = [NoUpdate EXCEPT !.kind = "chosen", !.result_id = rid]
               /\ result' = "err"
               /\ pc' = "returned"
               /\ UNCHANGED <<gist, inflight>>
    /\ UNCHANGED <<renderVars, clock, offered, nInserts, rendered, uploaded, answer, drawResult,
                   rendering>>

\* The expiry step of the ChosenInlineResult arm. The DELETE may fail.
Expire ==
    /\ pc = "expire"
    /\ \E deleted \in BOOLEAN :
          IF deleted
          THEN /\ gist' = DeleteExpired(gist, clock)
               /\ Return("ok")
          ELSE /\ Return("err")
               /\ UNCHANGED gist
    /\ UNCHANGED <<renderVars, clock, offered, cur, nInserts, rendered, uploaded, answer,
                   drawResult, rendering>>

Next ==
    \/ Tick
    \/ RecvMessage
    \/ RecvOther
    \/ StreamEnds
    \/ NextIteration
    \/ RecvEmptyQuery
    \/ RecvInlineQuery
    \/ DrawBegin
    \/ DrawEnd
    \/ Upload
    \/ Answer
    \/ RecvChosenUnused
    \/ RecvChosen
    \/ Expire

InitRenderIdle ==
    /\ rpc = "idle"
    /\ source = <<>>
    /\ font = [advance |-> 0, baseline |-> 0]
    /\ runs = <<>>
    /\ buf_width = 0
    /\ buf_height = 0
    /\ palette_buffer = <<>>
    /\ event = [x |-> 0, y |-> 0, w |-> 0, h |-> 0]
    /\ accessed = <<>>
    /\ nEvents = 0

Init == InitBot /\ InitRenderIdle

Spec == Init /\ [][Next]_vars

----------------------------------------------------------------------------
\* render::draw_code. Lengths that the code holds as f32 are held in 1/Sub
\* of a pixel.

\* Metrics::new(32.0, 44.0).scale(1.5)
FontSizeBase == 32
LineHeightBase == 44
ScaleNum == 3
ScaleDen == 2
font_size == (FontSizeBase * ScaleNum * Sub) \div ScaleDen
line_height == (LineHeightBase * ScaleNum * Sub) \div ScaleDen

\* metrics.font_size as u32
margin == font_size \div Sub

\* The characters of a source: a letter, a space and a line end.
SrcChars == {"a", " ", "\n"}
Sources == UNION {[1..k -> SrcChars] : k \in 0..MaxSrcLen}

\* What the font system measures for the monospace font at font_size: the
\* advance of a glyph and the baseline of the first line.
Fonts == {[advance |-> 28 * Sub + 1, baseline |-> 47 * Sub],
          [advance |-> 29 * Sub, baseline |-> 48 * Sub + 1]}

\* LinesWithEndings::from: the lines of a text, each with its line end.
RECURSIVE LinesWithEndings(_)
LinesWithEndings(s) ==
    IF s = <<>> THEN <<>>
    ELSE LET i == Find(s, "\n")
         IN IF i = 0 THEN <<s>>
            ELSE <<SubSeq(s, 1, i)>> \o LinesWithEndings(SubSeq(s, i + 1, Len(s)))

\* buffer.lines filled from code.trim(), shaped with no width limit: one
\* layout run per line, as wide as its glyphs, one line height below the last.
LayoutRuns(code, f) ==
    LET lines == LinesWithEndings(Trim(code))
        glyphs(l) == Cardinality({i \in 1..Len(l) : l[i] # "\n"})
    IN [i \in 1..Len(lines) |->
          [line_w |-> glyphs(lines[i]) * f.advance,
           line_y |-> f.baseline + (i - 1) * line_height]]

\* The maxima started at 0.0.
MaxInitZero == 0 * Sub
\* let mut max_w = 1.0f32; let mut max_y = 1.0f32;
MaxInit == 1 * Sub

\* f32::max
Max(a, b) == IF a >= b THEN a ELSE b

\* The loop over buffer.layout_runs()
RECURSIVE MaxRuns(_, _)
MaxRuns(rs, acc) ==
    IF rs = <<>> THEN acc
    ELSE MaxRuns(Tail(rs), [w |-> Max(acc.w, rs[1].line_w), y |-> Max(acc.y, rs[1].line_y)])

\* f32::ceil, then `as u32`
CeilU32(v) == IF v <= 0 THEN 0 ELSE (v + Sub - 1) \div Sub

\* i32::clamp
Clamp(v, lo, hi) == IF v < lo THEN lo ELSE IF v > hi THEN hi ELSE v

\* let pos = px + py * (buf_width as usize), of the clamped px and py
Pos(px, py, bw, bh) == Clamp(px, 0, bw) + Clamp(py, 0, bh) * bw

\* The indices the two loops of the callback compute, in their order:
\* for px in x..x + w { for py in y..y + h { ... } }
Positions(e, bw, bh) ==
    [k \in 1..(e.w * e.h) |->
        Pos(e.x + ((k - 1) \div e.h), e.y + ((k - 1) % e.h), bw, bh)]

\* palette_buffer[pos]; a pixel never written is the background alone.
Pixel(buf, pos) == IF pos \in DOMAIN buf THEN buf[pos] ELSE <<>>

\* palette_buffer[pos] = pixel.over(old_pixel)
Over(buf, pos, color) ==
    [q \in DOMAIN buf \cup {pos} |->
        IF q = pos THEN Pixel(buf, pos) \o <<color>> ELSE buf[q]]

RECURSIVE Composite(_, _, _)
Composite(buf, positions, color) ==
    IF positions = <<>> THEN buf
    ELSE Composite(Over(buf, positions[1], color), Tail(positions), color)

\* The first index of a sequence of indices that is outside the vector, or 0:
\* indexing a Vec outside its length panics.
FirstOutside(positions, len) ==
    IF \E k \in 1..Len(positions) : positions[k] >= len
    THEN CHOOSE k \in 1..Len(positions) :
            /\ positions[k] >= len
            /\ \A j \in 1..(k - 1) : positions[j] < len
    ELSE 0

InitBotIdle ==
    /\ pc = "exited"
    /\ clock = 0
    /\ gist = <<>>
    /\ offered = {}
    /\ cur = NoUpdate
    /\ result = "none"
    /\ nInserts = 0
    /\ rendered = FALSE
    /\ uploaded = FALSE
    /\ answer = NoAnswer
    /\ drawResult = "none"
    /\ inflight = 0
    /\ rendering = 0

\* draw_code is called with a source; the font system holds a font.
InitRender ==
    /\ InitBotIdle
    /\ rpc = "start"
    /\ source \in Sources
    /\ font \in Fonts
    /\ runs = <<>>
    /\ buf_width = 0
    /\ buf_height = 0
    /\ palette_buffer = <<>>
    /\ event = [x |-> 0, y |-> 0, w |-> 0, h |-> 0]
    /\ accessed = <<>>
    /\ nEvents = 0

\* The lines are highlighted and shaped, the canvas is sized from the layout
\* runs and filled with the background.
Layout ==
    /\ rpc = "start"
    /\ LET rs == LayoutRuns(source, font)
           m == MaxRuns(rs, [w |-> MaxInit, y |-> MaxInit])
       IN /\ runs' = rs
          /\ buf_width' = CeilU32(m.w) + margin
          /\ buf_height' = CeilU32(m.y) + margin
    /\ palette_buffer' = <<>>
    /\ rpc' = "laid"
    /\ UNCHANGED <<botVars, source, font, event, accessed, nEvents>>

\* highlight_line fails on a line: the expect() panics.
HighlightFails ==
    /\ rpc = "start"
    /\ Trim(source) # <<>>
    /\ rpc' = "panicked"
    /\ UNCHANGED <<botVars, source, font, runs, buf_width, buf_height, palette_buffer,
                   event, accessed, nEvents>>

\* buffer.draw walks the glyphs of the layout runs and calls the callback
\* with one coverage event (x, y, w, h): the rectangle is shifted by half the margin and composited pixel by pixel,
\* until an index is outside palette_buffer.
DrawEvent ==
    /\ rpc = "laid"
    /\ runs # <<>>
    /\ nEvents < MaxEvents
    /\ \E x \in {-1 - margin \div 2, 1 - margin \div 2, buf_width - 1 - margin \div 2,
                 buf_width - margin \div 2},
          y \in {-1 - margin \div 2, 1 - margin \div 2, buf_height - 1 - margin \div 2,
                 buf_height - margin \div 2},
          w \in 1..2, h \in 1..2 :
         LET e == [x |-> x + margin \div 2, y |-> y + margin \div 2, w |-> w, h |-> h]
             ps == Positions(e, buf_width, buf_height)
             out == FirstOutside(ps, buf_width * buf_height)
         IN /\ event' = e
            /\ IF out = 0
               THEN /\ accessed' = ps
                    /\ palette_buffer' = Composite(palette_buffer, ps, "text")
                    /\ rpc' = "laid"
               ELSE /\ accessed' = SubSeq(ps, 1, out)
                    /\ palette_buffer' = Composite(palette_buffer, SubSeq(ps, 1, out - 1), "text")
                    /\ rpc' = "panicked"
    /\ nEvents' = nEvents + 1
    /\ UNCHANGED <<botVars, source, font, runs, buf_width, buf_height>>

\* The canvas is converted and written as a PNG, or the expect() on the
\* encoder's result panics.
Encode ==
    /\ rpc = "laid"
    /\ \E encoded \in BOOLEAN : rpc' = IF encoded THEN "png" ELSE "panicked"
    /\ UNCHANGED <<botVars, source, font, runs, buf_width, buf_height, palette_buffer,
                   event, accessed, nEvents>>

NextRender ==
    \/ Layout
    \/ HighlightFails
    \/ DrawEvent
    \/ Encode

SpecRender == InitRender /\ [][NextRender]_vars

----------------------------------------------------------------------------
\* The claims about render.rs.

\* C1: every index the callback reads or writes palette_buffer at is inside
\* it, 0 <= index < buf_width * buf_height, so that no event panics.
C1_IndexInBounds ==
    nEvents > 0 =>
        /\ \A k \in 1..Len(accessed) :
              0 <= accessed[k] /\ accessed[k] < buf_width * buf_height
        /\ rpc # "panicked"

\* Whether pixel pos of the canvas lies in the rectangle of event e.
InRect(e, pos, bw) ==
    /\ e.x <= (pos % bw) /\ (pos % bw) < e.x + e.w
    /\ e.y <= (pos \div bw) /\ (pos \div bw) < e.y + e.h

\* C2: an event that is composited changes exactly the canvas pixels inside
\* its rectangle, each by one application of over; every other pixel is left
\* as it was.
C2_OnlyRectangleComposited ==
    [][(rpc' = "laid" /\ nEvents' = nEvents + 1) =>
          \A pos \in 0..(buf_width * buf_height - 1) :
             Len(Pixel(palette_buffer', pos)) =
                Len(Pixel(palette_buffer, pos)) + (IF InRect(event', pos, buf_width) THEN 1 ELSE 0)]_vars

\* The least whole number of pixels that is no less than v/Sub.
CeilPx(v) == CHOOSE n \in 0..v : n * Sub >= v /\ (n - 1) * Sub < v

\* C3: the canvas is ceil(max line width) + margin wide and ceil(max baseline
\* y) + margin high, with both maxima at least 1 and the margin the font
\* size, 48; no dimension is zero, and a source with no layout runs gives a
\* 49 x 49 canvas.
C3_CanvasSize ==
    rpc \in {"laid", "png"} =>
        LET ws == {runs[i].line_w : i \in 1..Len(runs)} \cup {Sub}
            ys == {runs[i].line_y : i \in 1..Len(runs)} \cup {Sub}
            max_w == CHOOSE v \in ws : \A u \in ws : u <= v
            max_y == CHOOSE v \in ys : \A u \in ys : u <= v
        IN /\ buf_width = CeilPx(max_w) + 48
           /\ buf_height = CeilPx(max_y) + 48
           /\ buf_width > 0
           /\ buf_height > 0
           /\ Trim(source) = <<>> => (runs = <<>> /\ buf_width = 49 /\ buf_height = 49)

\* A source of two lines whose widest line is a fraction of a pixel wide.
C3_Witness ==
    /\ rpc = "png"
    /\ Len(runs) >= 2
    /\ \E i \in 1..Len(runs) : (runs[i].line_w % Sub) # 0 /\ CeilU32(runs[i].line_w) + 48 = buf_width

----------------------------------------------------------------------------
\* The claims about main.rs.

\* The first colon of a text, found by its defining property.
FirstColon(t) ==
    IF \E i \in 1..Len(t) : t[i] = ":"
    THEN CHOOSE i \in 1..Len(t) : t[i] = ":" /\ \A j \in 1..(i - 1) : t[j] # ":"
    ELSE 0

\* C4: the query text is split at its first colon when what stands in front of
\* the colon is a single token, that is, holds no whitespace: the token is the
\* hint and the code is the text after that colon; any other text is all code
\* and has no hint.
C4_HintSplit ==
    cur.kind = "query" =>
        LET t == cur.query
            i == FirstColon(t)
        IN IF i # 0 /\ \A j \in 1..(i - 1) : t[j] \notin Whitespace
           THEN /\ cur.code_ext = Some(SubSeq(t, 1, i - 1))
                /\ cur.code = SubSeq(t, i + 1, Len(t))
                /\ cur.code_ext.val \o <<":">> \o cur.code = t
           ELSE /\ cur.code_ext = None
                /\ cur.code = t

\* C5: when the highlighter fails on a line or the PNG encoding fails, the
\* process is not aborted: the update loop goes on, no photo is answered and
\* the answer is a textual fallback.
C5_RenderFailureSurfaced ==
    drawResult \in {"highlight_failed", "encode_failed"} =>
        /\ pc # "panicked"
        /\ answer.kind # "photo"
        /\ pc = "returned" => answer.kind = "article"

\* C6: at most one draw_code call holds the shared font system and glyph cache
\* at any time, at most one process_update is in progress, and none is while
\* main waits for the next update.
C6_RendersSerialized ==
    /\ rendering <= 1
    /\ inflight <= 1
    /\ pc = "poll" => (rendering = 0 /\ inflight = 0)

\* A second query is being rendered after a first one was answered.
C6_Witness ==
    /\ pc = "drawing"
    /\ rendering = 1
    /\ DOMAIN gist = Ids
    /\ offered \cap Ids # {}

\* C7: a step deletes only gists that are ephemeral and were sent more than
\* 1800 seconds before it; a gist that is not ephemeral stays, not ephemeral.
C7_ExpiryDeletesOnlyOldEphemeral ==
    [][\A id \in DOMAIN gist :
          /\ id \notin DOMAIN gist' =>
                (gist[id].is_ephemeral > 0 /\ clock - gist[id].sent_at_unix_time > 1800)
          /\ gist[id].is_ephemeral = 0 =>
                (id \in DOMAIN gist' /\ gist'[id].is_ephemeral = 0)]_vars

\* The expiry step has run with a gist to delete, a gist exactly 1800 seconds
\* old to keep, or an old gist that is not ephemeral to keep.
C7_Witness ==
    /\ pc = "returned"
    /\ cur.kind = "chosen"
    /\ result = "ok"
    /\ clock > 1800
    /\ \E id \in (offered \cap Ids) \ DOMAIN gist : TRUE
    /\ \E id \in DOMAIN gist :
          gist[id].is_ephemeral = 0 /\ clock - gist[id].sent_at_unix_time > 1800

\* C8: once the ChosenInlineResult of a result id other than UNUSED_RESULT_ID
\* has been processed without error, the gist of that id is stored and is not
\* ephemeral.
C8_ChosenGistKept ==
    (pc = "returned" /\ cur.kind = "chosen" /\ cur.result_id # UNUSED_RESULT_ID
        /\ result = "ok") =>
        /\ cur.result_id \in DOMAIN gist
        /\ gist[cur.result_id].is_ephemeral = 0

\* C9: no more than 100 INSERT statements are executed for one inline query,
\* and a query whose insertions all failed is not rendered, uploaded or answered.
C9_AtMost100Inserts ==
    /\ nInserts <= 100
    /\ (cur.kind = "query" /\ cur.id = "" /\ nInserts > 0) =>
          (result = "err" /\ ~rendered /\ ~uploaded /\ answer = NoAnswer)

\* C10: a query whose code is empty or whitespace-only inserts no gist, is not
\* rendered and uploads nothing, and its answer is the article with
\* UNUSED_RESULT_ID; handling it, or a ChosenInlineResult with that id, leaves
\* the gist table as it was.
C10_EmptyCodeTouchesNothing ==
    /\ [](cur.kind = "query" /\ Trim(cur.code) = <<>> =>
            /\ nInserts = 0
            /\ ~rendered
            /\ ~uploaded
            /\ drawResult = "none"
            /\ answer = [kind |-> "article", id |-> UNUSED_RESULT_ID])
    /\ [][(\/ cur'.kind = "query" /\ Trim(cur'.code) = <<>>
           \/ cur'.kind = "chosen" /\ cur'.result_id = UNUSED_RESULT_ID)
          => gist' = gist]_vars

\* A query whose code, after the hint is stripped, is whitespace alone has
\* been answered while gists are stored and the invitation article is on offer.
C10_Witness ==
    /\ pc = "returned"
    /\ cur.kind = "query"
    /\ cur.code_ext.some
    /\ cur.code # <<>>
    /\ Trim(cur.code) = <<>>
    /\ answer.kind = "article"
    /\ UNUSED_RESULT_ID \in offered
    /\ DOMAIN gist # {}

====
